---- MODULE Spec2Model ----
(***************************************************************************)
(* Model of SigninStore, the ComponentStore behind the sign-in page.  The  *)
(* store keeps one SigninState record, runs two effects (init and          *)
(* handleSuccessfulLogin) over the WebSocketService RPC channel and        *)
(* listens to two failover push subscriptions.                             *)
(*                                                                         *)
(* Every action is one synchronous run of RxJS operators: a trigger of an  *)
(* effect up to its first RPC round trip, or the delivery of one RPC       *)
(* response / push event with everything its callbacks do.  init is        *)
(* triggered once per store; handleSuccessfulLogin may also be triggered   *)
(* by an outside caller, at any time.                                      *)
(***************************************************************************)
EXTENDS Integers, Sequences, FiniteSets, TLC

\* Number of external handleSuccessfulLogin() invocations explored.
MaxLogins == 1

VARIABLES
  state,           \* SigninState { isLoading, hasRootPassword, failover }
  canLoginLatest,  \* combineLatest buffer of canLogin$: <<isConnected, failoverAllowsLogin>>
  canLogin,        \* last value emitted by canLogin$
  hasFailover,     \* truthiness of the last value emitted by hasFailover$
  isConnected,     \* ws.isConnected$ (current value)
  token,           \* ws.token
  redirectUrl,     \* ws.redirectUrl
  currentUrl,      \* window.sessionStorage.getItem('currentUrl')
  subs,            \* push subscriptions active on the channel: <<topic, id>> pairs
  pending,         \* RPC calls of init in flight on the channel (method names)
  genPending,      \* auth.generate_token calls in flight on the channel
  initPc,          \* position of the init effect
  rootDone,        \* forkJoin: checkIfRootPasswordSet() has emitted and completed
  rootPwResp,      \* forkJoin buffer: value returned by user.has_root_password
  loginResp,       \* value emitted by ws.loginToken in loginWithToken
  genResp,         \* last value auth.generate_token returned to generateToken()
  foPc,            \* position of loadFailoverStatus()
  statusResp,      \* value failover.status resolved to in loadFailoverStatus
  ipsResp,         \* inner forkJoin buffer: failover.get_ips result
  reasonsResp,     \* inner forkJoin buffer: failover.disabled.reasons result
  hslPc,           \* position of the handleSuccessfulLogin effect
  hslCalls,        \* external invocations of handleSuccessfulLogin so far
  snackbar,        \* message currently open in the MatSnackBar
  snackLog,        \* every message passed to showSnackbar, in order
  navigations,     \* every url passed to router.navigateByUrl, in order
  unsubLog,        \* every <<topic, id>> passed to ws.unsub
  errors,          \* number of errors passed to handleWsError
  destroyed        \* ngOnDestroy has run

vars == <<state, canLoginLatest, canLogin, hasFailover, isConnected, token,
          redirectUrl, currentUrl, subs, pending, genPending, initPc, rootDone,
          rootPwResp, foPc, statusResp, ipsResp, reasonsResp, loginResp, genResp,
          hslPc, hslCalls, snackbar, snackLog, navigations, unsubLog, errors, destroyed>>

----------------------------------------------------------------------------
\* Values

\* JS null / undefined, and optional values ({} is undefined, {v} is v).
Null == "null"
Undefined == "undefined"
None == {}
Some(v) == {v}
TheValue(opt) == CHOOSE v \in opt : TRUE

\* FailoverStatus enum values seen by the store.
Single == "SINGLE"
Master == "MASTER"
Backup == "BACKUP"
Statuses == {Single, Master, Backup}

\* Results of failover.get_ips and failover.disabled.reasons.
IpLists == {<<>>, <<"10.0.0.1", "10.0.0.2">>}
ReasonLists == {<<>>, <<"NO_PONG">>}

\* Results of auth.generate_token: an empty (falsy) or a fresh token.
CachedToken == "tok0"
GeneratedTokens == {"", "tok1"}

\* ws.redirectUrl (a string, empty when no deep link was recorded) and the
\* result of sessionStorage.getItem('currentUrl') (null when there is no entry).
RedirectUrls == {"", "/storage"}
CurrentUrls == {Null, "/shell"}

Dashboard == "/dashboard"
TokenExpiredMsg == "Token expired, please log back in."
TokenErrorMsg == "Error generating token, please try again."
NoSnack == "none"

\* Push topics and the two subscription ids (two UUIDs).
StatusTopic == "failover.status"
ReasonsTopic == "failover.disabled.reasons"
UnsubReasonsTopic == "failover.disabled_reasons"
statusSubscriptionId == "uuid-1"
disabledReasonsSubscriptionId == "uuid-2"

\* RPC methods called by init.
HasRootPassword == "user.has_root_password"
FailoverStatusCall == "failover.status"
GetIps == "failover.get_ips"
DisabledReasons == "failover.disabled.reasons"
LoginToken == "loginToken"

Falsy(s) == s = Null \/ s = Undefined \/ s = ""

----------------------------------------------------------------------------
\* SigninState and its updaters

NullFailover ==
  [isNull |-> TRUE, status |-> Undefined, ips |-> None, disabledReasons |-> None]

initialState ==
  [isLoading |-> FALSE, hasRootPassword |-> TRUE, failover |-> NullFailover]

setLoadingState(s, isLoading) == [s EXCEPT !.isLoading = isLoading]

patchHasRootPassword(s, hasRootPassword) ==
  [s EXCEPT !.hasRootPassword = hasRootPassword]

setFailoverDisabledReasons(s, disabledReasons) ==
  [s EXCEPT !.failover =
     [s.failover EXCEPT !.isNull = FALSE, !.disabledReasons = Some(disabledReasons)]]

\* Mutant: the failover object is replaced instead of merged.
setFailoverStatusReplacing(s, status) ==
  [s EXCEPT !.failover =
     [isNull |-> FALSE, status |-> status, ips |-> None, disabledReasons |-> None]]

setFailoverStatus(s, status) ==
  [s EXCEPT !.failover = [s.failover EXCEPT !.isNull = FALSE, !.status = status]]

setFailoverIps(s, ips) ==
  [s EXCEPT !.failover = [s.failover EXCEPT !.isNull = FALSE, !.ips = Some(ips)]]

----------------------------------------------------------------------------
\* Selectors

\* Mutant: Master is missing from the list.
failoverAllowsLoginSingleOnly(s) == s.failover.status \in {Single}

\* [Single, Master].includes(state.failover?.status)
failoverAllowsLogin(s) == s.failover.status \in {Single, Master}

\* map(([isConnected, failoverAllowsLogin]) => isConnected && failoverAllowsLogin)
canLoginMap(latest) == latest[1] /\ latest[2]

\* Mutant: simplified to state.failover?.status !== FailoverStatus.Single.
hasFailoverSelectorOptionalChaining(s) == s.failover.status # Single

\* state.failover && state.failover.status !== FailoverStatus.Single  (truthiness)
hasFailoverSelector(s) == (~s.failover.isNull) /\ s.failover.status # Single

\* The state becomes s; the selectors re-emit into canLogin$ and hasFailover$.
SetState(s) ==
  /\ state' = s
  /\ canLoginLatest' = <<canLoginLatest[1], failoverAllowsLogin(s)>>
  /\ canLogin' = canLoginMap(canLoginLatest')
  /\ hasFailover' = hasFailoverSelector(s)

\* Mutant: session storage is consulted before the channel's redirectUrl.
getRedirectUrlSessionFirst ==
  IF ~Falsy(currentUrl) THEN currentUrl
  ELSE IF ~Falsy(redirectUrl) THEN redirectUrl
  ELSE Dashboard

getRedirectUrl ==
  IF ~Falsy(redirectUrl) THEN redirectUrl
  ELSE IF ~Falsy(currentUrl) THEN currentUrl
  ELSE Dashboard

----------------------------------------------------------------------------
Init ==
  /\ state = initialState
  /\ isConnected \in BOOLEAN
  /\ canLoginLatest = <<isConnected, failoverAllowsLogin(initialState)>>
  /\ canLogin = canLoginMap(canLoginLatest)
  /\ hasFailover = hasFailoverSelector(initialState)
  /\ token \in {Null, CachedToken}
  /\ redirectUrl \in RedirectUrls
  /\ currentUrl \in CurrentUrls
  /\ subs = {}
  /\ pending = {}
  /\ genPending = 0
  /\ initPc = "idle"
  /\ rootDone = FALSE
  /\ rootPwResp = None
  /\ foPc = "idle"
  /\ statusResp = Undefined
  /\ ipsResp = None
  /\ reasonsResp = None
  /\ loginResp = None
  /\ genResp = None
  /\ hslPc = "idle"
  /\ hslCalls = 0
  /\ snackbar = NoSnack
  /\ snackLog = <<>>
  /\ navigations = <<>>
  /\ unsubLog = {}
  /\ errors = 0
  /\ destroyed = FALSE

----------------------------------------------------------------------------
\* Collaborators

\* showSnackbar(message): snackbar.open(message, 'Close', {duration: 4000, ...})
showSnackbar(message) ==
  /\ snackbar' = message
  /\ snackLog' = Append(snackLog, message)

\* ws.sub(topic, id): the channel starts delivering the topic's events.
wsSub(active, topic, id) == active \cup {<<topic, id>>}

\* ws.unsub(topic, id): the channel cancels the subscription with that key.
wsUnsub(active, topic, id) == active \ {<<topic, id>>}

\* subscribeToFailoverUpdates(): both push subscriptions.
subscribeToFailoverUpdates(active) ==
  wsSub(wsSub(active, StatusTopic, statusSubscriptionId),
        ReasonsTopic, disabledReasonsSubscriptionId)

\* Mutant: the bootstrap queries stay subscribed after the sequence has failed.
ListeningAfterFailure(method) ==
  /\ ~destroyed
  /\ IF method = LoginToken THEN initPc = "login" ELSE initPc \in {"join", "failed"}

\* A response of an init RPC is listened to while the chain that issued it is
\* subscribed: forkJoin until init errors, takeUntil(destroy$) until teardown.
Listening(method) ==
  /\ ~destroyed
  /\ IF method = LoginToken THEN initPc = "login" ELSE initPc = "join"

\* The response is delivered to nobody: only the call leaves the channel.
Drop(method) ==
  /\ pending' = pending \ {method}
  /\ UNCHANGED <<state, canLoginLatest, canLogin, hasFailover, isConnected, token,
                 redirectUrl, currentUrl, subs, genPending, initPc, rootDone,
                 rootPwResp, foPc, statusResp, ipsResp, reasonsResp, hslPc,
                 hslCalls, snackbar, snackLog, navigations, unsubLog, errors,
                 destroyed,
                 loginResp, genResp>>

----------------------------------------------------------------------------
\* init effect

\* init(): setLoadingState(true), then forkJoin subscribes to both queries.
InitCall ==
  /\ ~destroyed
  /\ initPc = "idle"
  /\ SetState(setLoadingState(state, TRUE))
  /\ pending' = pending \cup {HasRootPassword, FailoverStatusCall}
  /\ initPc' = "join"
  /\ foPc' = "status"
  /\ UNCHANGED <<isConnected, token, redirectUrl, currentUrl, subs, genPending,
                 rootDone, rootPwResp, statusResp, ipsResp, reasonsResp, hslPc,
                 hslCalls, snackbar, snackLog, navigations, unsubLog, errors,
                 destroyed,
                 loginResp, genResp>>

\* Mutant: the next callback does nothing.
initNextNoReset(s) == s

\* tapResponse's next callback of init: () => this.setLoadingState(false)
initNext(s) == setLoadingState(s, FALSE)

\* Mutant: the error callback forgets the loading state.
initErrorNoReset(s) == s

\* tapResponse's error callback of init, state part.
initError(s) == setLoadingState(s, FALSE)

\* Mutant: the first branch to finish wins (race instead of forkJoin).
JoinStepRace(s, p, rd, fp) ==
  IF rd \/ fp = "done"
  THEN IF Falsy(token)
       THEN /\ SetState(initNext(s))
            /\ initPc' = "done"
            /\ pending' = p
       ELSE /\ SetState(s)
            /\ initPc' = "login"
            /\ pending' = p \cup {LoginToken}
  ELSE /\ SetState(s)
       /\ initPc' = "join"
       /\ pending' = p

\* The outer forkJoin after one branch finished with state s, calls p in flight:
\* when both branches are done the switchMap takes the token decision, and the
\* no-token branch of(null) runs tapResponse's next at once.
JoinStep(s, p, rd, fp) ==
  IF rd /\ fp = "done"
  THEN IF Falsy(token)
       THEN /\ SetState(initNext(s))
            /\ initPc' = "done"
            /\ pending' = p
       ELSE /\ SetState(s)
            /\ initPc' = "login"
            /\ pending' = p \cup {LoginToken}
  ELSE /\ SetState(s)
       /\ initPc' = "join"
       /\ pending' = p

\* checkIfRootPasswordSet(): user.has_root_password returns v.
RootPasswordResponse ==
  /\ HasRootPassword \in pending
  /\ IF Listening(HasRootPassword)
     THEN \E v \in BOOLEAN :
            /\ rootPwResp' = Some(v)
            /\ rootDone' = TRUE
            /\ JoinStep(patchHasRootPassword(state, v),
                        pending \ {HasRootPassword}, TRUE, foPc)
            /\ UNCHANGED <<isConnected, token, redirectUrl, currentUrl, subs,
                           genPending, foPc, statusResp, ipsResp, reasonsResp,
                           hslPc, hslCalls, snackbar, snackLog, navigations,
                           unsubLog, errors, destroyed,
                 loginResp, genResp>>
     ELSE Drop(HasRootPassword)

\* Mutant: the Single check is missing.
needsFailoverInfoAlways(status) == TRUE

\* loadFailoverStatus(): the status for which the store subscribes and loads
\* the additional info (status === FailoverStatus.Single returns of(null)).
needsFailoverInfo(status) == status # Single

\* loadFailoverStatus(): failover.status returns status.
FailoverStatusResponse ==
  /\ FailoverStatusCall \in pending
  /\ IF Listening(FailoverStatusCall)
     THEN \E status \in Statuses :
            /\ statusResp' = status
            /\ IF ~needsFailoverInfo(status)
               THEN /\ foPc' = "done"
                    /\ subs' = subs
                    /\ JoinStep(setFailoverStatus(state, status),
                                pending \ {FailoverStatusCall}, rootDone, "done")
               ELSE /\ foPc' = "info"
                    /\ subs' = subscribeToFailoverUpdates(subs)
                    /\ JoinStep(setFailoverStatus(state, status),
                                (pending \ {FailoverStatusCall})
                                  \cup {GetIps, DisabledReasons},
                                rootDone, "info")
            /\ UNCHANGED <<isConnected, token, redirectUrl, currentUrl,
                           genPending, rootDone, rootPwResp, ipsResp,
                           reasonsResp, hslPc, hslCalls, snackbar, snackLog,
                           navigations, unsubLog, errors, destroyed,
                 loginResp, genResp>>
     ELSE Drop(FailoverStatusCall)

\* loadAdditionalFailoverInfo(): the inner forkJoin emits [ips, reasons] once
\* both calls returned; its tap stores the reasons, then the ips.
AdditionalInfoStep(s, p, ipsOpt, reasonsOpt) ==
  IF ipsOpt # None /\ reasonsOpt # None
  THEN /\ foPc' = "done"
       /\ JoinStep(setFailoverIps(
                     setFailoverDisabledReasons(s, TheValue(reasonsOpt)),
                     TheValue(ipsOpt)),
                   p, rootDone, "done")
  ELSE /\ foPc' = "info"
       /\ JoinStep(s, p, rootDone, "info")

\* failover.get_ips returns ips.
GetIpsResponse ==
  /\ GetIps \in pending
  /\ IF Listening(GetIps)
     THEN \E ips \in IpLists :
            /\ ipsResp' = Some(ips)
            /\ AdditionalInfoStep(state, pending \ {GetIps}, Some(ips), reasonsResp)
            /\ UNCHANGED <<isConnected, token, redirectUrl, currentUrl, subs,
                           genPending, rootDone, rootPwResp, statusResp,
                           reasonsResp, hslPc, hslCalls, snackbar, snackLog,
                           navigations, unsubLog, errors, destroyed,
                 loginResp, genResp>>
     ELSE Drop(GetIps)

\* failover.disabled.reasons returns reasons.
DisabledReasonsResponse ==
  /\ DisabledReasons \in pending
  /\ IF Listening(DisabledReasons)
     THEN \E reasons \in ReasonLists :
            /\ reasonsResp' = Some(reasons)
            /\ AdditionalInfoStep(state, pending \ {DisabledReasons},
                                  ipsResp, Some(reasons))
            /\ UNCHANGED <<isConnected, token, redirectUrl, currentUrl, subs,
                           genPending, rootDone, rootPwResp, statusResp,
                           ipsResp, hslPc, hslCalls, snackbar, snackLog,
                           navigations, unsubLog, errors, destroyed,
                 loginResp, genResp>>
     ELSE Drop(DisabledReasons)

\* An RPC of init fails: forkJoin / switchMap pass the error to tapResponse's
\* error callback, which unsubscribes the chain from the calls still in flight.
InitRpcError ==
  \E method \in pending :
    /\ Listening(method)
    /\ pending' = pending \ {method}
    /\ SetState(initError(state))
    /\ errors' = errors + 1
    /\ initPc' = "failed"
    /\ UNCHANGED <<isConnected, token, redirectUrl, currentUrl, subs, genPending,
                   rootDone, rootPwResp, foPc, statusResp, ipsResp, reasonsResp,
                   hslPc, hslCalls, snackbar, snackLog, navigations, unsubLog,
                   destroyed,
                 loginResp, genResp>>

----------------------------------------------------------------------------
\* handleSuccessfulLogin effect

\* A value pushed into the effect's trigger: nothing once the effect's stream
\* has ended; otherwise setLoadingState(true), snackbar.dismiss() and switchMap
\* to a new generateToken() call (the previous inner call is unsubscribed).
hslTriggerState(s) == IF hslPc = "dead" THEN s ELSE setLoadingState(s, TRUE)

HslTrigger ==
  /\ hslPc' = IF hslPc = "dead" THEN "dead" ELSE "wait"
  /\ genPending' = IF hslPc = "dead" THEN genPending ELSE genPending + 1

\* loginWithToken()'s tap: the token was rejected (the branch that returns).
tokenRejected(wasLoggedIn) == ~wasLoggedIn

\* Mutant: the rejected branch lacks its return and falls through.
reachesHandleSuccessfulLoginNoReturn(wasLoggedIn) == TRUE

\* loginWithToken()'s tap: this.handleSuccessfulLogin() is reached.
reachesHandleSuccessfulLogin(wasLoggedIn) == ~tokenRejected(wasLoggedIn)

\* loginWithToken(): ws.loginToken(ws.token) emits wasLoggedIn; the tap runs,
\* then the value reaches tapResponse's next callback of init.
LoginTokenResponse ==
  /\ LoginToken \in pending
  /\ IF Listening(LoginToken)
     THEN \E wasLoggedIn \in BOOLEAN :
            LET rejected == tokenRejected(wasLoggedIn)
                proceeds == reachesHandleSuccessfulLogin(wasLoggedIn)
                s1 == IF rejected THEN setLoadingState(state, FALSE) ELSE state
                s2 == IF proceeds THEN hslTriggerState(s1) ELSE s1
            IN /\ pending' = pending \ {LoginToken}
               /\ loginResp' = Some(wasLoggedIn)
               /\ initPc' = "done"
               /\ token' = IF rejected THEN Null ELSE token
               /\ snackLog' = IF rejected THEN Append(snackLog, TokenExpiredMsg)
                              ELSE snackLog
               /\ snackbar' = IF proceeds /\ hslPc # "dead" THEN NoSnack
                              ELSE IF rejected THEN TokenExpiredMsg
                              ELSE snackbar
               /\ IF proceeds THEN HslTrigger ELSE UNCHANGED <<hslPc, genPending>>
               /\ SetState(initNext(s2))
               /\ UNCHANGED <<isConnected, redirectUrl, currentUrl, subs, rootDone,
                              rootPwResp, foPc, statusResp, ipsResp, reasonsResp,
                              hslCalls, navigations, unsubLog, errors, destroyed,
                              genResp>>
     ELSE Drop(LoginToken)

\* handleSuccessfulLogin() invoked by an external caller (credential login).
HandleSuccessfulLogin ==
  /\ ~destroyed
  /\ hslCalls < MaxLogins
  /\ hslCalls' = hslCalls + 1
  /\ HslTrigger
  /\ snackbar' = IF hslPc = "dead" THEN snackbar ELSE NoSnack
  /\ SetState(hslTriggerState(state))
  /\ UNCHANGED <<isConnected, token, redirectUrl, currentUrl, subs, pending,
                 initPc, rootDone, rootPwResp, foPc, statusResp, ipsResp,
                 reasonsResp, snackLog, navigations, unsubLog, errors, destroyed,
                 loginResp, genResp>>

\* The generateToken() call the effect is subscribed to is in flight.
GenerateLive == ~destroyed /\ hslPc = "wait"

\* Calls whose inner subscription switchMap or teardown has dropped.
GenerateStale == genPending - (IF GenerateLive THEN 1 ELSE 0)

\* The two unsubs of the success callback.
unsubBoth(active) ==
  wsUnsub(wsUnsub(active, StatusTopic, statusSubscriptionId),
          UnsubReasonsTopic, disabledReasonsSubscriptionId)

\* Mutant: the falsy check is missing, every result is stored.
generateTokenTapStoresAll(generated) ==
  token' = generated /\ UNCHANGED <<snackbar, snackLog>>

\* generateToken()'s tap: a falsy token is reported and not stored.
generateTokenTap(generated) ==
  IF Falsy(generated)
  THEN showSnackbar(TokenErrorMsg) /\ token' = token
  ELSE token' = generated /\ UNCHANGED <<snackbar, snackLog>>

\* auth.generate_token returns generated: generateToken()'s tap runs, then
\* tapResponse's next callback unsubscribes and navigates.
GenerateTokenResponse ==
  /\ GenerateLive
  /\ genPending > 0
  /\ \E generated \in GeneratedTokens :
       /\ genResp' = Some(generated)
       /\ generateTokenTap(generated)
  /\ genPending' = genPending - 1
  /\ hslPc' = "idle"
  /\ subs' = unsubBoth(subs)
  /\ unsubLog' = unsubLog \cup {<<StatusTopic, statusSubscriptionId>>,
                                <<UnsubReasonsTopic, disabledReasonsSubscriptionId>>}
  /\ navigations' = Append(navigations, getRedirectUrl)
  /\ UNCHANGED <<state, canLoginLatest, canLogin, hasFailover, isConnected,
                 redirectUrl, currentUrl, pending, initPc, rootDone, rootPwResp,
                 foPc, statusResp, ipsResp, reasonsResp, hslCalls, errors,
                 destroyed, loginResp>>

\* Mutant: the error callback resets the loading state, as init's does.
hslErrorResetsLoading(s) == setLoadingState(s, FALSE)

\* tapResponse's error callback of handleSuccessfulLogin, state part: the error
\* goes to handleWsError and no updater is called.
hslError(s) == s

\* auth.generate_token fails: tapResponse's error callback, after which the
\* effect's stream has ended (catchError of tapResponse on the outer stream).
GenerateTokenError ==
  /\ GenerateLive
  /\ genPending > 0
  /\ genPending' = genPending - 1
  /\ hslPc' = "dead"
  /\ errors' = errors + 1
  /\ SetState(hslError(state))
  /\ UNCHANGED <<isConnected, token,
                 redirectUrl, currentUrl, subs, pending, initPc, rootDone,
                 rootPwResp, foPc, statusResp, ipsResp, reasonsResp, hslCalls,
                 snackbar, snackLog, navigations, unsubLog, destroyed,
                 loginResp, genResp>>

\* The response (or error) of a generateToken() call nobody is subscribed to.
GenerateTokenDropped ==
  /\ GenerateStale > 0
  /\ genPending' = genPending - 1
  /\ UNCHANGED <<state, canLoginLatest, canLogin, hasFailover, isConnected, token,
                 redirectUrl, currentUrl, subs, pending, initPc, rootDone,
                 rootPwResp, foPc, statusResp, ipsResp, reasonsResp, hslPc,
                 hslCalls, snackbar, snackLog, navigations, unsubLog, errors,
                 destroyed,
                 loginResp, genResp>>

----------------------------------------------------------------------------
\* Push events, the connection signal, the snackbar timer and teardown

\* A failover.status event reaches the handler of subscribeToFailoverUpdates.
StatusPush ==
  /\ <<StatusTopic, statusSubscriptionId>> \in subs
  /\ \E status \in Statuses : SetState(setFailoverStatus(state, status))
  /\ UNCHANGED <<isConnected, token, redirectUrl, currentUrl, subs, pending,
                 genPending, initPc, rootDone, rootPwResp, foPc, statusResp,
                 ipsResp, reasonsResp, hslPc, hslCalls, snackbar, snackLog,
                 navigations, unsubLog, errors, destroyed,
                 loginResp, genResp>>

\* A failover.disabled.reasons event reaches its handler.
DisabledReasonsPush ==
  /\ <<ReasonsTopic, disabledReasonsSubscriptionId>> \in subs
  /\ \E reasons \in ReasonLists :
       SetState(setFailoverDisabledReasons(state, reasons))
  /\ UNCHANGED <<isConnected, token, redirectUrl, currentUrl, subs, pending,
                 genPending, initPc, rootDone, rootPwResp, foPc, statusResp,
                 ipsResp, reasonsResp, hslPc, hslCalls, snackbar, snackLog,
                 navigations, unsubLog, errors, destroyed,
                 loginResp, genResp>>

\* ws.isConnected$ emits; combineLatest of canLogin$ re-emits.
ConnectionChange ==
  /\ isConnected' = ~isConnected
  /\ canLoginLatest' = <<isConnected', canLoginLatest[2]>>
  /\ canLogin' = canLoginMap(canLoginLatest')
  /\ UNCHANGED <<state, hasFailover, token, redirectUrl, currentUrl, subs,
                 pending, genPending, initPc, rootDone, rootPwResp, foPc,
                 statusResp, ipsResp, reasonsResp, hslPc, hslCalls, snackbar,
                 snackLog, navigations, unsubLog, errors, destroyed,
                 loginResp, genResp>>

\* Mutant: the push streams are subscribed without untilDestroyed.
withoutUntilDestroyed(active) == active

\* untilDestroyed(this): the subscriptions piped through it end at ngOnDestroy.
untilDestroyed(active) == {}

\* ngOnDestroy: the effects end (takeUntil(destroy$)) and so do the push
\* subscriptions.
Destroy ==
  /\ ~destroyed
  /\ destroyed' = TRUE
  /\ subs' = untilDestroyed(subs)
  /\ UNCHANGED <<state, canLoginLatest, canLogin, hasFailover, isConnected, token,
                 redirectUrl, currentUrl, pending, genPending, initPc, rootDone,
                 rootPwResp, foPc, statusResp, ipsResp, reasonsResp, hslPc,
                 hslCalls, snackbar, snackLog, navigations, unsubLog, errors,
                 loginResp, genResp>>

----------------------------------------------------------------------------
Next ==
  \/ InitCall
  \/ RootPasswordResponse
  \/ FailoverStatusResponse
  \/ GetIpsResponse
  \/ DisabledReasonsResponse
  \/ LoginTokenResponse
  \/ InitRpcError
  \/ HandleSuccessfulLogin
  \/ GenerateTokenResponse
  \/ GenerateTokenError
  \/ GenerateTokenDropped
  \/ StatusPush
  \/ DisabledReasonsPush
  \/ ConnectionChange
  \/ Destroy

Spec == Init /\ [][Next]_vars

----------------------------------------------------------------------------
\* Properties

\* subscribeToFailoverUpdates() has run.
SubscribeRan == statusResp \in Statuses /\ needsFailoverInfo(statusResp)

\* This step is the success callback of handleSuccessfulLogin.
LoginSucceeds == Len(navigations') = Len(navigations) + 1

\* C1: when handleSuccessfulLogin succeeds after subscribeToFailoverUpdates has
\* run, an unsub has been issued for the topic/id pair of each of the two
\* subscriptions, no push subscription remains active on the channel (so no
\* later push event can change the state), and navigation is invoked with the
\* value of getRedirectUrl.
C1_UnsubscribesBothAndNavigates ==
  [][(LoginSucceeds /\ SubscribeRan) =>
       /\ <<StatusTopic, statusSubscriptionId>> \in unsubLog'
       /\ <<ReasonsTopic, disabledReasonsSubscriptionId>> \in unsubLog'
       /\ subs' = {}
       /\ navigations'[Len(navigations')] = getRedirectUrl]_vars

\* C2: in every reachable state isLoading is true while a bootstrap, token-login
\* or token-generation sequence is in flight; stated for the runs in which
\* handleSuccessfulLogin is invoked by init's accepted token login only, so that
\* it covers the span from the accepted login to the auth.generate_token result.
C2_LoadingWhileInFlight ==
  (hslCalls = 0 /\ ~destroyed /\ (initPc \in {"join", "login"} \/ GenerateLive))
    => state.isLoading

\* This step delivers a rejection of the cached token to loginWithToken.
TokenRejectedStep == loginResp = None /\ loginResp' = Some(FALSE)

\* C3: when the channel reports the cached token rejected, the resulting state
\* has the cached token cleared and isLoading false, exactly one notification
\* ("Token expired, please log back in.") has been shown by the step, and
\* handleSuccessfulLogin is not invoked (no trigger, no token request, no
\* navigation).
C3_RejectedToken ==
  [][TokenRejectedStep =>
       /\ token' = Null
       /\ ~state'.isLoading
       /\ snackLog' = Append(snackLog, TokenExpiredMsg)
       /\ hslPc' = hslPc
       /\ genPending' = genPending
       /\ navigations' = navigations]_vars

C3_Witness ==
  /\ loginResp = Some(FALSE)
  /\ token = Null
  /\ ~state.isLoading
  /\ snackLog = <<TokenExpiredMsg>>
  /\ hslPc = "idle"

\* C4: if init's failover.status call resolved to Single, then in no later
\* state is a push subscription established, and failover.get_ips and
\* failover.disabled.reasons are never called (never in flight, never answered).
C4_SingleLoadsNothing ==
  statusResp = Single =>
    /\ subs = {}
    /\ GetIps \notin pending
    /\ DisabledReasons \notin pending
    /\ ipsResp = None
    /\ reasonsResp = None

C4_Witness ==
  /\ statusResp = Single
  /\ initPc = "done"
  /\ subs = {}
  /\ pending = {}

\* C5: in every reachable state canLogin is true iff the channel reports
\* connected and the stored failover status is Single or Master; it is false
\* for Backup and false while the failover info is absent.
C5_CanLogin ==
  /\ canLogin <=> (isConnected /\ ~state.failover.isNull
                    /\ (state.failover.status = Single \/ state.failover.status = Master))
  /\ state.failover.status = Backup => ~canLogin
  /\ state.failover.isNull => ~canLogin

\* canLogin became true by a status push (Backup to Master) after the connection
\* signal had changed.
C5_Witness ==
  /\ canLogin
  /\ isConnected
  /\ statusResp = Backup
  /\ state.failover.status = Master

\* C6 as claimed: in every reachable state with status Single, failover.ips and
\* failover.disabledReasons are absent, also after status pushes that follow an
\* earlier non-Single status.
C6_SingleHasNoDetails ==
  state.failover.status = Single =>
    (state.failover.ips = None /\ state.failover.disabledReasons = None)

\* C6 as amended: failover.ips and failover.disabledReasons stay absent until
\* init's failover.status call has resolved to a non-Single status, hence in
\* every state whose status is Single by that call.
C6_NoDetailsUntilNonSingleResponse ==
  statusResp \in {Undefined, Single} =>
    (state.failover.ips = None /\ state.failover.disabledReasons = None)

C6_Witness ==
  /\ statusResp = Single
  /\ state.failover.status = Single
  /\ state.failover.ips = None
  /\ state.failover.disabledReasons = None
  /\ rootDone

IsSet(url) == url # Null /\ url # ""

\* C7: every url passed to navigation by getRedirectUrl is the channel's
\* redirectUrl when that is set (whatever session storage holds), else the
\* session-storage currentUrl when that is set, else '/dashboard'.
C7_RedirectPrecedence ==
  \A i \in 1..Len(navigations) :
    /\ IsSet(redirectUrl) => navigations[i] = redirectUrl
    /\ (~IsSet(redirectUrl) /\ IsSet(currentUrl)) => navigations[i] = currentUrl
    /\ (~IsSet(redirectUrl) /\ ~IsSet(currentUrl)) => navigations[i] = "/dashboard"

\* Both inputs set: the channel's redirectUrl won.
C7_Witness ==
  /\ IsSet(redirectUrl)
  /\ IsSet(currentUrl)
  /\ navigations = <<redirectUrl>>

\* This step ends init on its no-token path (token login is never started).
InitEndsWithoutToken == initPc = "join" /\ initPc' = "done"

\* C8: when init runs with no cached token and all its calls return, the
\* sequence ends with isLoading false and hasRootPassword equal to the value
\* user.has_root_password returned, whatever the order of the responses.
C8_InitWithoutToken ==
  [][InitEndsWithoutToken =>
       /\ ~state'.isLoading
       /\ rootPwResp' # None
       /\ state'.hasRootPassword = TheValue(rootPwResp')]_vars

\* The non-default answer, with the failover branch (status and details) done.
C8_Witness ==
  /\ initPc = "done"
  /\ loginResp = None
  /\ rootPwResp = Some(FALSE)
  /\ ~state.hasRootPassword
  /\ ~state.isLoading
  /\ hslCalls = 0
  /\ statusResp = Master

\* loadAdditionalFailoverInfo() has stored its results.
InfoLoaded == SubscribeRan /\ foPc = "done"

\* C9: in every reachable state hasFailoverPair is truthy iff failover info is
\* present and its status is not Single; with status Master, a connected channel
\* and get_ips answered, hasFailoverPair and canLogin are true and failover.ips
\* is the returned list.
C9_HasFailoverPair ==
  /\ hasFailover <=> (~state.failover.isNull /\ state.failover.status # Single)
  /\ (InfoLoaded /\ state.failover.status = Master /\ isConnected) =>
       (hasFailover /\ canLogin /\ state.failover.ips = ipsResp)

C9_Witness ==
  /\ InfoLoaded
  /\ isConnected
  /\ state.failover.status = Master
  /\ state.failover.ips = Some(<<"10.0.0.1", "10.0.0.2">>)
  /\ state.failover.disabledReasons = Some(<<>>)
  /\ hasFailover
  /\ canLogin

\* C10: after teardown no push event and no late RPC response changes the
\* SigninState or navigates, and no push subscription of the store is active.
C10_InertAfterTeardown ==
  [][destroyed' =>
       /\ subs' = {}
       /\ destroyed => (state' = state /\ navigations' = navigations)]_vars

\* Torn down with both subscriptions established and the detail calls in
\* flight; their late responses have since arrived and changed nothing.
C10_Witness ==
  /\ destroyed
  /\ SubscribeRan
  /\ foPc = "info"
  /\ initPc = "join"
  /\ pending = {}
  /\ subs = {}
  /\ state.failover.ips = None

\* This step ends init through the error callback of its tapResponse.
InitFails == initPc \in {"join", "login"} /\ initPc' = "failed"

\* The calls of the two bootstrap queries.
BootstrapCalls == {HasRootPassword, FailoverStatusCall, GetIps, DisabledReasons}

\* C11 as claimed: when one of the two bootstrap queries fails, the other one
\* is still awaited: the sequence does not end while a call of the other query
\* is in flight, its result unapplied.
C11_FailureAwaitsOtherQuery ==
  [][(initPc = "join" /\ initPc' = "failed") =>
       pending' \cap BootstrapCalls = {}]_vars

\* C11 as amended: the first failure of a bootstrap query ends the sequence at
\* once (isLoading false, the error forwarded); the other query is no longer
\* awaited, and the response it gets later changes nothing in the SigninState.
C11_FailureEndsJoinAtOnce ==
  [][/\ (initPc = "join" /\ initPc' = "failed") =>
          (~state'.isLoading /\ errors' = errors + 1
             /\ state'.hasRootPassword = state.hasRootPassword
             /\ state'.failover = state.failover)
     /\ (initPc = "failed" /\ pending' # pending) =>
          (state' = state /\ initPc' = "failed")]_vars

\* failover.status failed first; the answer of user.has_root_password came
\* later and was not applied.
C11_Witness ==
  /\ initPc = "failed"
  /\ ~destroyed
  /\ pending = {}
  /\ statusResp = Undefined
  /\ ~rootDone
  /\ rootPwResp = None
  /\ state.hasRootPassword

\* init has taken the token decision: the token login was issued or answered,
\* or the sequence ended on the no-token branch.
TokenDecisionTaken ==
  initPc \in {"login", "done"} \/ LoginToken \in pending \/ loginResp # None

\* C12: the token login is never issued, and the no-token decision never taken,
\* before the user.has_root_password response, the failover.status response
\* and, for a non-Single status, both the failover.get_ips and the
\* failover.disabled.reasons responses have been received, in any order.
C12_DecisionAfterAllResponses ==
  TokenDecisionTaken =>
    /\ rootPwResp # None
    /\ statusResp \in Statuses
    /\ statusResp # Single => (ipsResp # None /\ reasonsResp # None)

\* The token login is in flight after a non-Single status and both details.
C12_Witness ==
  /\ initPc = "login"
  /\ LoginToken \in pending
  /\ statusResp = Backup
  /\ ipsResp # None
  /\ reasonsResp # None
  /\ rootPwResp # None

\* C13: when an RPC of the init sequence (root password, failover status, ips,
\* disabled reasons, token login) fails, isLoading is set to false and the
\* error is forwarded once to the error handler; no RPC is issued by that step
\* or by init afterwards, and the sequence stays ended.
C13_InitFailure ==
  [][/\ InitFails =>
          (~state'.isLoading /\ errors' = errors + 1
             /\ pending' \subseteq pending /\ genPending' = genPending)
     /\ initPc = "failed" =>
          (initPc' = "failed" /\ pending' \subseteq pending
             /\ (hslPc' = hslPc => errors' = errors))]_vars

\* The token login failed after both bootstrap queries had returned.
C13_Witness ==
  /\ initPc = "failed"
  /\ rootDone
  /\ foPc = "done"
  /\ loginResp = None
  /\ LoginToken \notin pending
  /\ ~state.isLoading
  /\ errors = 1
  /\ hslCalls = 0

\* This step delivers an auth.generate_token result to handleSuccessfulLogin.
TokenGenerated == hslPc = "wait" /\ hslPc' = "idle"

\* C14: when auth.generate_token returns an empty token, the user is notified
\* ("Error generating token, please try again."), the cached token keeps its
\* value, and the sequence still takes its success branch: ws.unsub is called
\* for the status subscription and for the disabled-reasons subscription id,
\* and navigation is invoked with getRedirectUrl. (The second unsub carries the
\* topic the code passes, see C1.)
C14_EmptyTokenStillSucceeds ==
  [][(TokenGenerated /\ genResp' = Some("")) =>
       /\ snackLog' = Append(snackLog, TokenErrorMsg)
       /\ snackbar' = TokenErrorMsg
       /\ token' = token
       /\ <<StatusTopic, statusSubscriptionId>> \in unsubLog'
       /\ \E call \in unsubLog' : call[2] = disabledReasonsSubscriptionId
       /\ <<StatusTopic, statusSubscriptionId>> \notin subs'
       /\ navigations' = Append(navigations, getRedirectUrl)]_vars

\* Empty token after init's accepted token login: the cached token is kept.
C14_Witness ==
  /\ genResp = Some("")
  /\ loginResp = Some(TRUE)
  /\ token = CachedToken
  /\ snackLog = <<TokenErrorMsg>>
  /\ Len(navigations) = 1
  /\ hslPc = "idle"

\* This step delivers a failure of auth.generate_token to handleSuccessfulLogin.
TokenGenerationFails == hslPc = "wait" /\ hslPc' = "dead"

SameLoading(s, t) == t.isLoading = s.isLoading
SameRootPassword(s, t) == t.hasRootPassword = s.hasRootPassword
SameStatus(s, t) == t.failover.status = s.failover.status
SameIps(s, t) == t.failover.ips = s.failover.ips
SameReasons(s, t) == t.failover.disabledReasons = s.failover.disabledReasons

\* Each update operation, applied to the current state with any argument, sets
\* its own field and leaves every other field as it is.
UpdatesAreMerges ==
  /\ \A isLoading \in BOOLEAN :
       LET t == setLoadingState(state, isLoading)
       IN t.isLoading = isLoading /\ SameRootPassword(state, t)
            /\ t.failover = state.failover
  /\ \A hasRootPassword \in BOOLEAN :
       LET t == patchHasRootPassword(state, hasRootPassword)
       IN t.hasRootPassword = hasRootPassword /\ SameLoading(state, t)
            /\ t.failover = state.failover
  /\ \A status \in Statuses :
       LET t == setFailoverStatus(state, status)
       IN t.failover.status = status /\ SameLoading(state, t)
            /\ SameRootPassword(state, t) /\ SameIps(state, t)
            /\ SameReasons(state, t)
  /\ \A ips \in IpLists :
       LET t == setFailoverIps(state, ips)
       IN t.failover.ips = Some(ips) /\ SameLoading(state, t)
            /\ SameRootPassword(state, t) /\ SameStatus(state, t)
            /\ SameReasons(state, t)
  /\ \A reasons \in ReasonLists :
       LET t == setFailoverDisabledReasons(state, reasons)
       IN t.failover.disabledReasons = Some(reasons) /\ SameLoading(state, t)
            /\ SameRootPassword(state, t) /\ SameStatus(state, t)
            /\ SameIps(state, t)

\* No step drops a stored failover field (ips, written once, never change).
NoFieldDropped ==
  /\ state.failover.status # Undefined => state'.failover.status # Undefined
  /\ state.failover.ips # None => SameIps(state, state')
  /\ state.failover.disabledReasons # None => state'.failover.disabledReasons # None
  /\ ~state.failover.isNull => ~state'.failover.isNull

\* C16: in every reachable state each update operation (setLoadingState, the
\* hasRootPassword patch, setFailoverStatus, setFailoverIps,
\* setFailoverDisabledReasons) changes only the field it sets and leaves every
\* other field of the SigninState unchanged, the other failover sub-fields
\* included; so under every interleaving of pushes and responses no stored
\* field is dropped by an update to another field.
C16_UpdatesChangeOneField == []UpdatesAreMerges /\ [][NoFieldDropped]_vars

\* A status push and a disabled-reasons push were applied after the details
\* had been stored, and the ips are still the ones get_ips returned.
C16_Witness ==
  /\ InfoLoaded
  /\ ipsResp = Some(<<"10.0.0.1", "10.0.0.2">>)
  /\ state.failover.ips = ipsResp
  /\ state.failover.status # statusResp
  /\ state.failover.disabledReasons # reasonsResp
  /\ state.failover.disabledReasons # None

\* This step is an invocation of handleSuccessfulLogin() by an outside caller.
ExplicitLogin == hslCalls' = hslCalls + 1

\* C17: after a handleSuccessfulLogin invocation whose token generation failed
\* (the effect's stream has taken its error callback), a later explicit
\* invocation is processed like the first: it sets isLoading true and issues a
\* new auth.generate_token request.
C17_ReloginAfterFailure ==
  [][(ExplicitLogin /\ hslPc = "dead") =>
       (state'.isLoading /\ genPending' = genPending + 1 /\ hslPc' = "wait")]_vars

\* This step is the tap of loadAdditionalFailoverInfo storing both details.
InfoStored == foPc = "info" /\ foPc' = "done"

\* A failover.disabled.reasons push has been applied while the initial request
\* was still being waited for (only a push writes the field before the tap).
ReasonsPushedBeforeInfo == foPc = "info" /\ state.failover.disabledReasons # None

\* C18: once a failover.disabled.reasons push has been applied, the stored
\* disabledReasons is not replaced afterwards by the response of the initial
\* failover.disabled.reasons request issued before that push.
C18_PushNotOverwrittenByInitialResponse ==
  [][(InfoStored /\ ReasonsPushedBeforeInfo) =>
       SameReasons(state, state')]_vars

\* init ended without an accepted token login: no cached token was found, the
\* token login was rejected, or a call of the sequence failed.
InitEndedWithoutLogin ==
  \/ initPc = "done" /\ loginResp = None
  \/ loginResp = Some(FALSE)
  \/ initPc = "failed"

\* Nothing of handleSuccessfulLogin has happened.
NoLoginSequence ==
  /\ genPending = 0
  /\ genResp = None
  /\ hslPc = "idle"
  /\ unsubLog = {}
  /\ navigations = <<>>

\* A step navigates, or writes a non-empty token, only when it delivers an
\* auth.generate_token result.
OnlyAfterTokenResult ==
  (navigations' # navigations \/ (token' # token /\ ~Falsy(token'))) =>
    (TokenGenerated /\ genPending' = genPending - 1 /\ genResp' # None)

\* C19: navigation and the write of a non-empty cached token happen only on an
\* auth.generate_token response; an init that finds no cached token, or whose
\* token login is rejected or fails, never calls auth.generate_token, never
\* unsubscribes and never navigates (hslCalls = 0: no outside caller has
\* invoked handleSuccessfulLogin either).
C19_NoLoginWithoutTokenResult ==
  /\ []((hslCalls = 0 /\ InitEndedWithoutLogin) => NoLoginSequence)
  /\ [][OnlyAfterTokenResult]_vars

\* init's token login was rejected and did nothing more; the token and the
\* navigation come from a later explicit login.
C19_Witness ==
  /\ loginResp = Some(FALSE)
  /\ hslCalls = 1
  /\ genResp = Some("tok1")
  /\ token = "tok1"
  /\ navigations = <<getRedirectUrl>>
  /\ snackLog = <<TokenExpiredMsg>>

====
